---- MODULE Spec2Model ----
(***************************************************************************)
(* Model of src/cal/iter/month_into_days.rs: the DaySpan resolvers         *)
(* (get_range), the DaysIter::days constructor and the MonthDays iterator  *)
(* with its forward (next) and backward (next_back) steps.                 *)
(***************************************************************************)
EXTENDS Integers, Sequences, FiniteSets, TLC

VARIABLES
    ym,       \* MonthDays.ym: the year-month the iterator was built from
    range,    \* MonthDays.range: the Range<i8> cursor [start, end)
    span,     \* the span argument handed to days()
    range0,   \* the Range<i8> as get_range returned it at construction
    fwdLog,   \* the results of the next() calls so far, in call order
    bwdLog,   \* the results of the next_back() calls so far, in call order
    last,     \* the latest call: its name, the day it took, what it returned
    idle      \* number of calls made on an already empty range

vars == <<ym, range, span, range0, fwdLog, bwdLog, last, idle>>

-----------------------------------------------------------------------------
(* Bounds of the model *)

\* caller-supplied bounds are drawn from 0..MaxLow, from
\* MaxBound-HighWidth..MaxBound (around the end of the month) and from
\* ExtraBounds
MaxLow == 1
MaxBound == 33
HighWidth == 5
\* a constructed range holds at most MaxLen day numbers
MaxLen == 34
\* calls made on an empty range are followed for MaxIdleCalls calls
MaxIdleCalls == 2

-----------------------------------------------------------------------------
(* i8 arithmetic *)

I8Min == -128
I8Max == 127

\* two's complement wrap of an integer into i8
WrapI8(x) == ((x + 128) % 256) - 128

-----------------------------------------------------------------------------
(* Option<T> and Result<T, E> *)

None == <<>>
Some(x) == <<x>>
IsSome(o) == o # None
Unwrap(o) == o[1]

\* Result::ok
ResultOk(r) == IF r.tag = "Ok" THEN Some(r.value) ELSE None

-----------------------------------------------------------------------------
(* External collaborators: cal::compound::YearMonth and local::Date *)

\* one year-month for each day count 28..31
YearMonths ==
    { [year |-> 1999, month |-> "February"],
      [year |-> 2000, month |-> "February"],
      [year |-> 1999, month |-> "September"],
      [year |-> 2000, month |-> "January"] }

IsLeapYear(y) == (y % 4 = 0) /\ ((y % 100 # 0) \/ (y % 400 = 0))

\* YearMonth::day_count: the number of days, 28..31, of the month
day_count(m) ==
    CASE m.month = "February" -> IF IsLeapYear(m.year) THEN 29 ELSE 28
      [] m.month = "September" -> 30
      [] OTHER -> 31

\* local::Date::ymd: the fallible date constructor
DateYmd(year, month, day) ==
    IF 1 <= day /\ day <= day_count([year |-> year, month |-> month])
    THEN [tag |-> "Ok", value |-> [year |-> year, month |-> month, day |-> day]]
    ELSE [tag |-> "Err", value |-> "OutOfRange"]

-----------------------------------------------------------------------------
(* Span resolution: the four DaySpan impls *)

Range(s, e) == [start |-> s, end |-> e]

RangeFull == [kind |-> "RangeFull", start |-> 0, end |-> 0]
RangeFrom(s) == [kind |-> "RangeFrom", start |-> s, end |-> 0]
RangeTo(e) == [kind |-> "RangeTo", start |-> 0, end |-> e]
RangeSE(s, e) == [kind |-> "Range", start |-> s, end |-> e]

\* mutant: the exclusive end taken to be the day count itself
get_range_RangeFull_NoPlusOne(m) == Range(1, day_count(m))
get_range_RangeFull(m) == Range(1, WrapI8(day_count(m) + 1))
get_range_RangeFrom(self, m) == Range(self.start, WrapI8(day_count(m) + 1))
\* mutant: the end clamped to the end of the month
get_range_RangeTo_Clamped(self, m) ==
    Range(1, IF self.end > day_count(m) + 1 THEN day_count(m) + 1 ELSE self.end)
get_range_RangeTo(self, m) == Range(1, self.end)
\* mutant: a resolver that validates, flagging a span whose start exceeds its end
get_range_Range_Validating(self, m) ==
    IF self.start <= self.end
    THEN Range(self.start, self.end)
    ELSE [start |-> self.start, end |-> self.end, error |-> "InvalidSpan"]
\* mutant: the end clamped to the end of the month
get_range_Range_Clamped(self, m) ==
    Range(self.start,
          IF self.end > day_count(m) + 1 THEN day_count(m) + 1 ELSE self.end)
get_range_Range(self, m) == Range(self.start, self.end)

\* the dispatch of span.get_range(ym) on the type of span
get_range(self, m) ==
    CASE self.kind = "RangeFull" -> get_range_RangeFull(m)
      [] self.kind = "RangeFrom" -> get_range_RangeFrom(self, m)
      [] self.kind = "RangeTo" -> get_range_RangeTo(self, m)
      [] self.kind = "Range" -> get_range_Range(self, m)

\* DaysIter::days for YearMonth
days(self, s) == [ym |-> self, range |-> get_range(s, self)]

-----------------------------------------------------------------------------
(* The Range<i8> cursor *)

\* mutant: yields the number after the one it removes
RangeNext_OffByOne(r) ==
    IF r.start < r.end
    THEN [range |-> Range(WrapI8(r.start + 1), r.end),
          item |-> Some(WrapI8(r.start + 1))]
    ELSE [range |-> r, item |-> None]

\* mutant: an inclusive upper bound
RangeNext_Inclusive(r) ==
    IF r.start <= r.end
    THEN [range |-> Range(WrapI8(r.start + 1), r.end), item |-> Some(r.start)]
    ELSE [range |-> r, item |-> None]

\* mutant: the emptiness test written as start != end
RangeNext_NotEqual(r) ==
    IF r.start # r.end
    THEN [range |-> Range(WrapI8(r.start + 1), r.end), item |-> Some(r.start)]
    ELSE [range |-> r, item |-> None]

\* mutant: start is advanced on every call, also on an empty range
RangeNext_AlwaysAdvance(r) ==
    [range |-> Range(WrapI8(r.start + 1), r.end),
     item |-> IF r.start < r.end THEN Some(r.start) ELSE None]

\* Range<i8>::next: take the smallest remaining number
RangeNext(r) ==
    IF r.start < r.end
    THEN [range |-> Range(WrapI8(r.start + 1), r.end), item |-> Some(r.start)]
    ELSE [range |-> r, item |-> None]

\* mutant: yields the exclusive end itself
RangeNextBack_OffByOne(r) ==
    IF r.start < r.end
    THEN [range |-> Range(r.start, WrapI8(r.end - 1)), item |-> Some(r.end)]
    ELSE [range |-> r, item |-> None]

\* mutant: an inclusive lower bound
RangeNextBack_Inclusive(r) ==
    IF r.start <= r.end
    THEN [range |-> Range(r.start, WrapI8(r.end - 1)), item |-> Some(WrapI8(r.end - 1))]
    ELSE [range |-> r, item |-> None]

\* mutant: removes two numbers from the end for each one it yields
RangeNextBack_DoubleStep(r) ==
    IF r.start < r.end
    THEN [range |-> Range(r.start, WrapI8(r.end - 2)), item |-> Some(WrapI8(r.end - 1))]
    ELSE [range |-> r, item |-> None]

\* Range<i8>::next_back: take the largest remaining number
RangeNextBack(r) ==
    IF r.start < r.end
    THEN [range |-> Range(r.start, WrapI8(r.end - 1)), item |-> Some(WrapI8(r.end - 1))]
    ELSE [range |-> r, item |-> None]

-----------------------------------------------------------------------------
(* MonthDays *)

\* mutant: the day number saturated into the month before construction
MakeDate_Saturating(m, d) ==
    LET n == day_count(m)
        c == IF d < 1 THEN 1 ELSE IF d > n THEN n ELSE d
    IN  ResultOk(DateYmd(m.year, m.month, c))

\* the closure |d| local::Date::ymd(self.ym.year, self.ym.month, d).ok()
MakeDate(m, d) == ResultOk(DateYmd(m.year, m.month, d))

\* Option::and_then applied to that closure: .and_then(|d| ...)
AndThenMakeDate(o, m) == IF IsSome(o) THEN MakeDate(m, Unwrap(o)) ELSE None

\* mutant: a day that fails construction is skipped and the scan goes on
\* (self.range.by_ref().filter_map(..).next())
RECURSIVE MonthDaysNext_SkipInvalid(_)
MonthDaysNext_SkipInvalid(it) ==
    LET r == RangeNext(it.range)
        after == [ym |-> it.ym, range |-> r.range]
    IN  IF r.item = None THEN [it |-> after, taken |-> None, ret |-> None]
        ELSE IF IsSome(MakeDate(it.ym, Unwrap(r.item)))
             THEN [it |-> after, taken |-> r.item,
                   ret |-> MakeDate(it.ym, Unwrap(r.item))]
             ELSE MonthDaysNext_SkipInvalid(after)

\* mutant: next written as a copy of next_back, taking from the back
MonthDaysNext_FromBack(it) ==
    LET r == RangeNextBack(it.range)
    IN  [it |-> [ym |-> it.ym, range |-> r.range],
         taken |-> r.item,
         ret |-> AndThenMakeDate(r.item, it.ym)]

\* mutant: the day is only removed from the range when construction succeeds
MonthDaysNext_KeepOnFailure(it) ==
    LET r == RangeNext(it.range)
        ret == AndThenMakeDate(r.item, it.ym)
    IN  [it |-> [ym |-> it.ym, range |-> IF IsSome(ret) THEN r.range ELSE it.range],
         taken |-> r.item,
         ret |-> ret]

\* Iterator::next for MonthDays: the iterator afterwards and the value returned
MonthDaysNext(it) ==
    LET r == RangeNext(it.range)
    IN  [it |-> [ym |-> it.ym, range |-> r.range],
         taken |-> r.item,
         ret |-> AndThenMakeDate(r.item, it.ym)]

\* mutant: next_back written as a copy of next, taking from the front
MonthDaysNextBack_FromFront(it) == MonthDaysNext(it)

\* DoubleEndedIterator::next_back for MonthDays
MonthDaysNextBack(it) ==
    LET r == RangeNextBack(it.range)
    IN  [it |-> [ym |-> it.ym, range |-> r.range],
         taken |-> r.item,
         ret |-> AndThenMakeDate(r.item, it.ym)]

-----------------------------------------------------------------------------
(* The state machine: one iterator, built once, then stepped from both ends *)

ExtraBounds == {I8Min, I8Min + 1, 10, 20, 35, 40, I8Max - 1, I8Max}
Bounds == (0..MaxLow) \cup ((MaxBound - HighWidth)..MaxBound) \cup ExtraBounds

Spans ==
    {RangeFull}
      \cup {RangeFrom(s) : s \in Bounds}
      \cup {RangeTo(e) : e \in Bounds}
      \cup {RangeSE(s, e) : s \in Bounds, e \in Bounds}

Self == [ym |-> ym, range |-> range]
IsEmpty(r) == ~(r.start < r.end)

Init ==
    /\ ym \in YearMonths
    /\ span \in Spans
    /\ range = days(ym, span).range
    /\ range.end - range.start <= MaxLen
    /\ range0 = range
    /\ fwdLog = <<>>
    /\ bwdLog = <<>>
    /\ last = [op |-> "days", taken |-> None, ret |-> None]
    /\ idle = 0

\* a caller that still calls: any call on a non-empty range, and up to
\* MaxIdleCalls calls on an empty one
MayCall == ~IsEmpty(range) \/ idle < MaxIdleCalls

next ==
    /\ MayCall
    /\ LET step == MonthDaysNext(Self)
       IN  /\ ym' = step.it.ym
           /\ range' = step.it.range
           /\ fwdLog' = Append(fwdLog, step.ret)
           /\ last' = [op |-> "next", taken |-> step.taken, ret |-> step.ret]
    /\ idle' = IF IsEmpty(range) THEN idle + 1 ELSE idle
    /\ UNCHANGED <<span, range0, bwdLog>>

next_back ==
    /\ MayCall
    /\ LET step == MonthDaysNextBack(Self)
       IN  /\ ym' = step.it.ym
           /\ range' = step.it.range
           /\ bwdLog' = Append(bwdLog, step.ret)
           /\ last' = [op |-> "next_back", taken |-> step.taken, ret |-> step.ret]
    /\ idle' = IF IsEmpty(range) THEN idle + 1 ELSE idle
    /\ UNCHANGED <<span, range0, fwdLog>>

Next == next \/ next_back

Spec == Init /\ [][Next]_vars

-----------------------------------------------------------------------------
(* Reading the call logs *)

Max(a, b) == IF a >= b THEN a ELSE b

\* the dates of a log, in call order
Somes(log) ==
    LET some == SelectSeq(log, IsSome)
    IN  [i \in 1..Len(some) |-> Unwrap(some[i])]

\* the day numbers of a sequence of dates
DaysOf(dates) == [i \in 1..Len(dates) |-> dates[i].day]

\* the day numbers s, s+1, ..., e-1
Interval(s, e) == [i \in 1..Max(0, e - s) |-> s + i - 1]

Reverse(q) == [i \in 1..Len(q) |-> q[Len(q) + 1 - i]]

\* the log of a caller that stopped at the first call that returned nothing
EndedAtFirstNone(log) ==
    /\ Len(log) >= 1
    /\ log[Len(log)] = None
    /\ \A i \in 1..(Len(log) - 1) : IsSome(log[i])

\* only next() was called, until it returned nothing
ForwardConsumed == bwdLog = <<>> /\ EndedAtFirstNone(fwdLog)
\* only next_back() was called, until it returned nothing
BackwardConsumed == fwdLog = <<>> /\ EndedAtFirstNone(bwdLog)

DayCount == day_count(ym)

\* 1 <= start <= end <= day_count + 1 for the range as resolved
ValidRange0 ==
    /\ 1 <= range0.start
    /\ range0.start <= range0.end
    /\ range0.end <= DayCount + 1

\* the dates a for loop over next() collects from a fresh iterator
RECURSIVE CollectForward(_)
CollectForward(it) ==
    LET step == MonthDaysNext(it)
    IN  IF IsSome(step.ret) THEN <<Unwrap(step.ret)>> \o CollectForward(step.it)
        ELSE <<>>

-----------------------------------------------------------------------------
(* Claims *)

\* C1: for a resolved interval [start, end) with 1 <= start <= end <=
\* day_count + 1, calling only next() until it returns nothing yields exactly
\* end - start dates with day numbers start, start+1, ..., end-1 in order.
C1_ForwardYieldsInterval ==
    (ValidRange0 /\ ForwardConsumed) =>
        /\ Len(Somes(fwdLog)) = range0.end - range0.start
        /\ DaysOf(Somes(fwdLog)) = Interval(range0.start, range0.end)

\* the unbounded span of a 30-day month, consumed forward to the end
C1_Witness ==
    /\ span = RangeFull
    /\ DayCount = 30
    /\ ForwardConsumed
    /\ DaysOf(Somes(fwdLog)) = Interval(1, 31)

\* C2: for a month of N days and in-range bounds, forward consumption of
\* days(span) yields N dates for the full span, N - s + 1 for From(s),
\* e - s for Explicit(s, e) and e - 1 for To(e).
C2_CountBySpan ==
    ForwardConsumed =>
        LET n == Len(Somes(fwdLog))
            inRange(x) == 1 <= x /\ x <= DayCount + 1
        IN  /\ span.kind = "RangeFull" => n = DayCount
            /\ (span.kind = "RangeFrom" /\ inRange(span.start)) =>
                   n = DayCount - span.start + 1
            /\ (span.kind = "Range" /\ inRange(span.start) /\ inRange(span.end)
                  /\ span.start <= span.end) =>
                   n = span.end - span.start
            /\ (span.kind = "RangeTo" /\ inRange(span.end)) => n = span.end - 1

\* From(10) on a 30-day month, consumed forward: 21 dates
C2_Witness ==
    /\ span = RangeFrom(10)
    /\ DayCount = 30
    /\ ForwardConsumed
    /\ Len(Somes(fwdLog)) = 21

\* C3: span resolution maps Full to [1, day_count + 1), From(start) to
\* [start, day_count + 1), To(end) to [1, end) and Explicit(start, end) to
\* [start, end) unchanged, with no clamping or reordering of the bounds; the
\* iterator starts on exactly that interval.
C3_Resolution ==
    /\ span.kind = "RangeFull" => range0 = Range(1, DayCount + 1)
    /\ span.kind = "RangeFrom" => range0 = Range(span.start, DayCount + 1)
    /\ span.kind = "RangeTo" => range0 = Range(1, span.end)
    /\ span.kind = "Range" => range0 = Range(span.start, span.end)
    /\ last.op = "days" => range = range0

\* a fresh iterator over Explicit(20, 40): start and end kept though the end
\* lies past the month's end
C3_Witness ==
    /\ last.op = "days"
    /\ span = RangeSE(20, 40)
    /\ range = Range(20, 40)
    /\ range.end > DayCount + 1

\* C4: for a valid interval, calling only next_back() until it returns
\* nothing yields the dates of forward consumption of a fresh iterator in
\* reverse order: the first backward date is the last forward date, and the
\* day numbers run end-1, ..., start.
C4_BackwardIsReverse ==
    (ValidRange0 /\ BackwardConsumed) =>
        LET forward == CollectForward(days(ym, span))
            backward == Somes(bwdLog)
        IN  /\ backward = Reverse(forward)
            /\ Len(forward) = range0.end - range0.start
            /\ DaysOf(backward) = Reverse(Interval(range0.start, range0.end))
            /\ Len(backward) >= 1 => backward[1] = forward[Len(forward)]

\* the unbounded span of a 30-day month, consumed backward to the end
C4_Witness ==
    /\ span = RangeFull
    /\ DayCount = 30
    /\ BackwardConsumed
    /\ DaysOf(Somes(bwdLog)) = Reverse(Interval(1, 31))

\* C5: under every interleaving of next() and next_back(), the day numbers
\* of the dates yielded so far from either end are pairwise distinct.
C5_NoDuplicateDay ==
    LET yielded == DaysOf(Somes(fwdLog) \o Somes(bwdLog))
    IN  Cardinality({yielded[i] : i \in 1..Len(yielded)}) = Len(yielded)

\* both ends have yielded dates and the interval is used up
C5_Witness ==
    /\ Len(Somes(fwdLog)) >= 2
    /\ Len(Somes(bwdLog)) >= 2
    /\ IsEmpty(range)

\* C6: the calls that consume an element number at most max(0, end - start);
\* the interval is empty exactly when that many have been made, and then both
\* next() and next_back() report nothing; for a valid interval the dates
\* yielded from both ends by then number exactly end - start.
C6_Terminates ==
    LET consuming == Len(fwdLog) + Len(bwdLog) - idle
        n == Max(0, range0.end - range0.start)
    IN  /\ consuming <= n
        /\ consuming = n <=> IsEmpty(range)
        /\ IsEmpty(range) =>
               /\ MonthDaysNext(Self).ret = None
               /\ MonthDaysNextBack(Self).ret = None
               /\ idle > 0 => last.ret = None
               /\ ValidRange0 =>
                      Len(Somes(fwdLog)) + Len(Somes(bwdLog))
                          = range0.end - range0.start

\* a valid interval of ten days used up from both ends, then called again
C6_Witness ==
    /\ span = RangeSE(20, 30)
    /\ IsEmpty(range)
    /\ Len(Somes(fwdLog)) = 4
    /\ Len(Somes(bwdLog)) = 6
    /\ idle = MaxIdleCalls

\* C7: once the interval is empty, every further next() and next_back()
\* returns nothing and leaves the interval and the year-month unchanged.
C7_ExhaustionPermanent ==
    [][IsEmpty(range) =>
          /\ last'.ret = None
          /\ last'.taken = None
          /\ range' = range
          /\ ym' = ym]_vars

\* an interval that was consumed to emptiness and then called from both ends
C7_Witness ==
    /\ ~IsEmpty(range0)
    /\ IsEmpty(range)
    /\ idle = MaxIdleCalls
    /\ fwdLog # <<>> /\ fwdLog[Len(fwdLog)] = None
    /\ bwdLog # <<>> /\ bwdLog[Len(bwdLog)] = None
    /\ range.start = range.end

\* C8: a step that takes a day number for which date construction fails
\* returns nothing, does not go on to a later constructible day, and removes
\* exactly that one day number from its end of the interval.
C8_FailureEndsStep ==
    [][/\ (~IsEmpty(range) /\ last'.op = "next"
             /\ MakeDate(ym, range.start) = None) =>
              /\ last'.ret = None
              /\ last'.taken = Some(range.start)
              /\ range' = Range(range.start + 1, range.end)
       /\ (~IsEmpty(range) /\ last'.op = "next_back"
             /\ MakeDate(ym, range.end - 1) = None) =>
              /\ last'.ret = None
              /\ last'.taken = Some(range.end - 1)
              /\ range' = Range(range.start, range.end - 1)]_vars

\* next() has just taken day 0, which is no date, while day 1 is still there
C8_Witness ==
    /\ last.op = "next"
    /\ last.taken = Some(0)
    /\ last.ret = None
    /\ range.start = 1
    /\ ~IsEmpty(range)
    /\ IsSome(MakeDate(ym, range.start))

\* C9: once a next() or next_back() call has returned nothing because date
\* construction failed, every later call returns nothing as well.
C9_FailureEndsSequence ==
    [][(IsSome(last.taken) /\ last.ret = None) => last'.ret = None]_vars

\* C10: when every day number of the resolved interval lies outside
\* 1..day_count (as for Explicit(35, 40) on a 30-day month), no next() or
\* next_back() call ever yields a date; the first step already reports end.
C10_NoValidDayNoDate ==
    (\A d \in range0.start..(range0.end - 1) : d < 1 \/ d > DayCount) =>
        /\ Somes(fwdLog) = <<>>
        /\ Somes(bwdLog) = <<>>
        /\ last.ret = None

\* Explicit(35, 40) on a 30-day month, stepped from both ends
C10_Witness ==
    /\ span = RangeSE(35, 40)
    /\ DayCount = 30
    /\ Len(fwdLog) >= 2
    /\ Len(bwdLog) >= 2
    /\ IsSome(last.taken)

\* the 8-bit signed integers
I8 == I8Min..I8Max

\* a well-formed MonthDays value: a year-month and a Range<i8>, nothing else
MonthDaysValues == [ym : YearMonths, range : [start : I8, end : I8]]

\* a well-formed Option<local::Date> of year-month m
IsOptionDate(o, m) ==
    \/ o = None
    \/ /\ Len(o) = 1
       /\ DOMAIN Unwrap(o) = {"year", "month", "day"}
       /\ Unwrap(o).year = m.year
       /\ Unwrap(o).month = m.month
       /\ Unwrap(o).day \in I8

\* C11: span resolution and construction are total: for every span variant,
\* every caller-supplied bound (start past the day count, end below 1, start
\* above end included) and every day count, days(ym, span) is an iterator
\* over a plain Range<i8> and no error value; afterwards an invalidity shows
\* only as a step returning nothing (every step returns a date or nothing).
C11_ResolutionTotal ==
    /\ last.op = "days" =>
           \A m \in YearMonths : \A s \in Spans : days(m, s) \in MonthDaysValues
    /\ [ym |-> ym, range |-> range0] \in MonthDaysValues
    /\ Self \in MonthDaysValues
    /\ IsOptionDate(last.ret, ym)
    /\ (IsSome(last.taken) /\ (Unwrap(last.taken) < 1 \/ Unwrap(last.taken) > DayCount))
           => last.ret = None

\* an iterator built from Explicit(35, 0) (start past the month, end below 1,
\* start above end) and stepped once, returning nothing
C11_Witness ==
    /\ span = RangeSE(35, 0)
    /\ range = Range(35, 0)
    /\ last.op = "next"
    /\ last.ret = None

\* C12 as stated: in every reachable state the interval's start is less than
\* or equal to its end.
C12_StartLeEnd == range.start <= range.end

\* C12 amended: an interval resolved with start <= end keeps start <= end in
\* every reachable state, and one resolved with start > end (which the
\* resolver passes on unchanged) is never moved by a step; in both cases a
\* step never shrinks the interval past emptiness.
C12_NeverPastEmpty ==
    /\ range0.start <= range0.end => range.start <= range.end
    /\ range0.start > range0.end => range = range0
    /\ range.end - range.start >= IF range0.end >= range0.start THEN 0
                                  ELSE range0.end - range0.start

\* a non-empty interval consumed from both ends until start meets end, and
\* called again after that
C12_Witness ==
    /\ range0.start < range0.end
    /\ range.start = range.end
    /\ range.start > range0.start
    /\ range.end < range0.end
    /\ idle >= 1

\* C13: on a non-empty interval next() increases start by exactly 1 and
\* leaves end unchanged, next_back() decreases end by exactly 1 and leaves
\* start unchanged, whether or not date construction succeeds; no step
\* changes the year-month; start never decreases and end never increases.
C13_StepFrame ==
    [][/\ ym' = ym
       /\ range'.start >= range.start
       /\ range'.end <= range.end
       /\ (~IsEmpty(range) /\ last'.op = "next") =>
              range' = Range(range.start + 1, range.end)
       /\ (~IsEmpty(range) /\ last'.op = "next_back") =>
              range' = Range(range.start, range.end - 1)]_vars

\* next_back() has just taken a day past the end of the month: construction
\* failed, and only the end has moved
C13_Witness ==
    /\ last.op = "next_back"
    /\ IsSome(last.taken)
    /\ last.ret = None
    /\ range = Range(range0.start, range0.end - 1)
    /\ range0.end - 1 > DayCount
    /\ ~IsEmpty(range)

\* C14: every day number passed to date construction, and the day of every
\* yielded date, lies in the interval as resolved at construction; every
\* yielded date carries the year and month of the iterator's year-month; a
\* forward step takes the smallest remaining day number and a backward step
\* the largest.  Stated of every step: the day it takes and the date it
\* returns.
C14_DaysFromInterval ==
    [][/\ IsSome(last'.taken) =>
              /\ range0.start <= Unwrap(last'.taken)
              /\ Unwrap(last'.taken) < range0.end
       /\ IsSome(last'.ret) =>
              LET d == Unwrap(last'.ret)
              IN  /\ range0.start <= d.day /\ d.day < range0.end
                  /\ d.year = ym.year
                  /\ d.month = ym.month
       /\ (~IsEmpty(range) /\ last'.op = "next") =>
              last'.taken = Some(range.start)
       /\ (~IsEmpty(range) /\ last'.op = "next_back") =>
              last'.taken = Some(range.end - 1)
       /\ IsSome(last'.ret) => Unwrap(last'.ret).day = Unwrap(last'.taken)]_vars

\* dates have been yielded from both ends of an interval of more than two
\* days, the latest by next_back()
C14_Witness ==
    /\ Len(Somes(fwdLog)) >= 1
    /\ Len(Somes(bwdLog)) >= 1
    /\ last.op = "next_back"
    /\ IsSome(last.ret)
    /\ Unwrap(last.taken) > range.start

\* C15: an iterator whose resolved interval has start >= end is empty from
\* the start: every next() and next_back() returns nothing, no day number is
\* ever handed to date construction, and start and end stay as resolved.
C15_EmptyFromStart ==
    IsEmpty(range0) =>
        /\ range = range0
        /\ last.taken = None
        /\ last.ret = None
        /\ \A i \in 1..Len(fwdLog) : fwdLog[i] = None
        /\ \A i \in 1..Len(bwdLog) : bwdLog[i] = None
        /\ Len(fwdLog) + Len(bwdLog) = idle

\* Explicit(20, 10), called from both ends
C15_Witness ==
    /\ span = RangeSE(20, 10)
    /\ range = Range(20, 10)
    /\ Len(fwdLog) >= 1
    /\ Len(bwdLog) >= 1

\* C16: for To(e) or Explicit(s, e) with 1 <= s <= day_count and
\* e > day_count + 1, consuming forward until the first call that returns
\* nothing yields the days s..day_count in order, and consuming backward
\* until the first call that returns nothing yields no date: the first
\* next_back() takes day e - 1, which fails construction.
C16_EndPastMonth ==
    LET s == IF span.kind = "RangeTo" THEN 1 ELSE span.start
        e == span.end
    IN  (span.kind \in {"RangeTo", "Range"} /\ 1 <= s /\ s <= DayCount
           /\ e > DayCount + 1) =>
            /\ ForwardConsumed =>
                   /\ DaysOf(Somes(fwdLog)) = Interval(s, DayCount + 1)
                   /\ last.taken = Some(DayCount + 1)
            /\ BackwardConsumed =>
                   /\ bwdLog = <<None>>
                   /\ last.taken = Some(e - 1)

\* To(33) on a 30-day month consumed forward: days 1..30, then day 31 fails
C16_Witness ==
    /\ span = RangeTo(33)
    /\ DayCount = 30
    /\ ForwardConsumed
    /\ Len(Somes(fwdLog)) = 30
    /\ range = Range(32, 33)

\* C17: under any interleaving, the days of the dates returned by next() are
\* strictly increasing in call order, those returned by next_back() strictly
\* decreasing, and every day returned by next() is smaller than every day
\* returned by next_back().
C17_Monotone ==
    LET f == DaysOf(Somes(fwdLog))
        b == DaysOf(Somes(bwdLog))
    IN  /\ \A i \in 1..(Len(f) - 1) : f[i] < f[i + 1]
        /\ \A i \in 1..(Len(b) - 1) : b[i] > b[i + 1]
        /\ \A i \in 1..Len(f) : \A j \in 1..Len(b) : f[i] < b[j]

\* three dates from each end, the two ends adjacent
C17_Witness ==
    /\ Len(Somes(fwdLog)) >= 3
    /\ Len(Somes(bwdLog)) >= 3
    /\ IsEmpty(range)
    /\ Somes(fwdLog)[Len(Somes(fwdLog))].day + 1 = Somes(bwdLog)[Len(Somes(bwdLog))].day

\* C18: no i8 arithmetic overflows: day_count + 1 is within -128..127 and is
\* the end of a Full or From interval, and a step moves start (by + 1) or end
\* (by - 1) only when start < end, the result staying within -128..127.
C18_NoOverflow ==
    [][/\ DayCount + 1 \in I8
       /\ span.kind \in {"RangeFull", "RangeFrom"} => range0.end = DayCount + 1
       /\ range'.start # range.start =>
              /\ range.start < range.end
              /\ range.start + 1 <= I8Max
              /\ range'.start = range.start + 1
       /\ range'.end # range.end =>
              /\ range.start < range.end
              /\ range.end - 1 >= I8Min
              /\ range'.end = range.end - 1
       /\ range'.start \in I8 /\ range'.end \in I8]_vars

\* Explicit(126, 127) after next(): start has reached 127
C18_Witness ==
    /\ range0 = Range(I8Max - 1, I8Max)
    /\ range.start = I8Max
    /\ last.op = "next"
    /\ last.taken = Some(I8Max - 1)

====
